---------------------------- MODULE Spec2Model ----------------------------
(***************************************************************************)
(* A model of the clause-analysis pipeline of AILegalDocumentAnalyzer:     *)
(* PDF segmentation, batched model-backed classification and obligation    *)
(* extraction with JSON response parsing, the rule-based fallbacks, the    *)
(* FAISS retrieval index and the Streamlit pipeline driver.                *)
(*                                                                         *)
(* Python values are modelled by what the code can observe of them:        *)
(*   - a clause is a dict: a TLA+ record whose DOMAIN is the set of keys   *)
(*     present ("label" \in DOMAIN c  is  "label" in clause);              *)
(*   - a value decoded from JSON is a tagged record (JStr, JInt, JFloat,   *)
(*     JBool, JNull, JArr, JObj), so that the dynamic type errors of the   *)
(*     code (TypeError, AttributeError) are visible;                       *)
(*   - clause and page texts are sequences of one-character strings, so    *)
(*     that split, strip, lower and substring tests are computed;          *)
(*   - an annotator response text is a sequence of tokens: the code fence  *)
(*     ```, the language tag json, white space, a run of non-JSON text,    *)
(*     or the text of one JSON value.                                      *)
(***************************************************************************)
EXTENDS Integers, Sequences, FiniteSets, TLC

VARIABLES
    pages,        \* the document: page texts in page order (fitz document)
    clauses,      \* the clause list all stages share and mutate in place
    ords,         \* per clause, the enumerate() ordinal i it was cut at
    pc,           \* position of the running operation
    gemini_model, \* the model handle of the model-backed stage ("None" before initialize)
    task,         \* which model-backed stage runs: "classify" or "extract"
    bi,           \* loop variable i of  for i in range(0, len(clauses), batch_size)
    resp,         \* outcome of the last annotator call (a response text or Raised)
    handled,      \* the value of i of the last batch handled (-1: none yet)
    pre,          \* the clause list as it was before the last batch was handled
    start,        \* the clause list as it was when the operation was entered
    allFailed,    \* every annotator call of the operation so far failed
    exc,          \* exception propagating out of the operation ("none" if none)
    encoder,      \* the embedding model: the vector it gives each text it may be asked
    r_index,      \* FaissRetriever._index: None, or the vectors added to it
    r_clauses,    \* FaissRetriever.clauses
    rcall,        \* the last call on the retriever and its arguments
    result,       \* what the last retrieve returned: positions in r_clauses
    api_key,      \* the api_key argument of process_document ("" if none was given)
    summary,      \* the local variable summary of process_document (JNull is None)
    failure,      \* what sent process_document into its except branch, and where
    snap,         \* the clause list as it was when the except branch was entered
    fromModel,    \* the (position, key) pairs written from items of model responses
    calls,        \* the annotator calls made so far: the stage, the loop index i
                  \* and the number of clauses put in the prompt of each
    prompt        \* what the last summarization prompt reports

\* the state of the retriever
rvars == <<encoder, r_index, r_clauses, rcall, result>>

\* the state of a run of process_document beyond the clause list
pvars == <<api_key, summary, failure, snap, fromModel, prompt>>

vars == <<pages, clauses, ords, pc, gemini_model, task, bi, resp, handled, pre,
          start, allFailed, exc, encoder, r_index, r_clauses, rcall, result,
          api_key, summary, failure, snap, fromModel, calls, prompt>>

-----------------------------------------------------------------------------
(* Bounds of the model *)

\* largest clause list a stage is run on (two batches need more than batch_size)
MaxClauses == 11
\* most items in a JSON array the annotator returns
MaxItems == 2
\* most pages of a generated document, and most characters of such a page
MaxPages == 2
MaxPageLen == 4
\* largest clause list handed to the retriever alone, largest k asked of it,
\* and largest coordinate of an embedding
MaxIndexed == 3
MaxK == 5
MaxCoord == 2
\* largest clause list handed to the summarizer alone
MaxSummarized == 6

-----------------------------------------------------------------------------
(* Program constants *)

\* batch_size = 10
batch_size == 10
\* def retrieve(self, query: str, k: int = 5)
default_k == 5

-----------------------------------------------------------------------------
(* Python / JSON values *)

Min(a, b) == IF a < b THEN a ELSE b

\* every sequence over S of at most n elements
SeqsUpTo(S, n) == UNION {[1..m -> S] : m \in 0..n}

JStr(s) == [t |-> "str", s |-> s]
JInt(n) == [t |-> "int", n |-> n]
\* a float with value h/2 (1.5 is JFloat(3), 1.0 is JFloat(2))
JFloat(h) == [t |-> "float", h |-> h]
JBool(b) == [t |-> "bool", b |-> b]
JNull == [t |-> "null"]
JArr(a) == [t |-> "arr", a |-> a]
JObj(o) == [t |-> "obj", o |-> o]

\* the empty JSON object {}
EmptyObj == [t |-> "obj", o |-> <<>>]

\* bool(v) for a decoded JSON value
Truthy(v) ==
    CASE v.t = "str" -> v.s /= ""
      [] v.t = "int" -> v.n /= 0
      [] v.t = "float" -> v.h /= 0
      [] v.t = "bool" -> v.b
      [] v.t = "null" -> FALSE
      [] v.t = "arr" -> Len(v.a) > 0
      [] v.t = "obj" -> DOMAIN v.o /= {}

\* d.get(key, default) on a decoded JSON object
DictGet(item, key, default) ==
    IF key \in DOMAIN item.o THEN item.o[key] ELSE default

\* d[key] = value on a clause dict
DictSet(d, key, value) ==
    [x \in DOMAIN d \cup {key} |-> IF x = key THEN value ELSE d[x]]

-----------------------------------------------------------------------------
(* Annotator response texts *)

TFence == [k |-> "fence"]
TTag == [k |-> "json"]
TWs == [k |-> "ws"]
TJunk == [k |-> "junk"]
TVal(j) == [k |-> "val", j |-> j]

\* the outcome of an annotator call: it raised, or it answered a text
Raised == [raised |-> TRUE, text |-> <<>>]

Answer(text) == [raised |-> FALSE, text |-> text]

RECURSIVE LStrip(_)
LStrip(s) == IF s /= <<>> /\ Head(s) = TWs THEN LStrip(Tail(s)) ELSE s

RECURSIVE RStrip(_)
RStrip(s) ==
    IF s /= <<>> /\ s[Len(s)] = TWs THEN RStrip(SubSeq(s, 1, Len(s) - 1)) ELSE s

\* response_text.strip()
StripText(s) == RStrip(LStrip(s))

StartsWith(s, p) == Len(s) >= Len(p) /\ SubSeq(s, 1, Len(p)) = p

EndsWith(s, p) == Len(s) >= Len(p) /\ SubSeq(s, Len(s) - Len(p) + 1, Len(s)) = p


\* an unwrapping that knows the bare fence only, not the fence with its
\* language tag
UnwrapCodeFence_NoTag(text) ==
    LET t1 == StripText(text)
        t3 == IF StartsWith(t1, <<TFence>>) THEN SubSeq(t1, 2, Len(t1)) ELSE t1
        t4 == IF EndsWith(t3, <<TFence>>) THEN SubSeq(t3, 1, Len(t3) - 1) ELSE t3
    IN  StripText(t4)

\* lines 110-117: strip, drop a leading ```json, then a leading ```, then a
\* trailing ```, strip again
UnwrapCodeFence(text) ==
    LET t1 == StripText(text)
        t2 == IF StartsWith(t1, <<TFence, TTag>>) THEN SubSeq(t1, 3, Len(t1)) ELSE t1
        t3 == IF StartsWith(t2, <<TFence>>) THEN SubSeq(t2, 2, Len(t2)) ELSE t2
        t4 == IF EndsWith(t3, <<TFence>>) THEN SubSeq(t3, 1, Len(t3) - 1) ELSE t3
    IN  StripText(t4)

\* json.loads: the text must be exactly one JSON value (white space around it
\* is already stripped); anything else raises json.JSONDecodeError
JsonLoads(text) ==
    IF Len(text) = 1 /\ text[1].k = "val"
    THEN [exc |-> "none", v |-> text[1].j]
    ELSE [exc |-> "JSONDecodeError", v |-> JNull]

RECURSIVE SetToSeq(_)
SetToSeq(S) ==
    IF S = {} THEN <<>>
    ELSE LET x == CHOOSE y \in S : TRUE IN <<x>> \o SetToSeq(S \ {x})

\* for item in v: a list yields its elements, a dict its keys and a str its
\* characters (all of them str objects; only their type is observed, so a
\* character is written JStr("c")); any other value is not iterable
Iterate(v) ==
    CASE v.t = "arr" -> [exc |-> "none", items |-> v.a]
      [] v.t = "obj" ->
            [exc |-> "none",
             items |-> LET ks == SetToSeq(DOMAIN v.o)
                       IN  [n \in 1..Len(ks) |-> JStr(ks[n])]]
      [] v.t = "str" ->
            [exc |-> "none", items |-> [n \in 1..Len(v.s) |-> JStr("c")]]
      [] OTHER -> [exc |-> "TypeError", items |-> <<>>]

\* the outcome of  0 <= idx < len(clauses)  followed by  clauses[idx]:
\* "in" (idx addresses a clause), "out" (the test is false), or the TypeError
\* of comparing a str/None/list/dict with an int or of indexing with a float
IndexTest(idx, len) ==
    CASE idx.t = "int" -> IF 0 <= idx.n /\ idx.n < len THEN "in" ELSE "out"
      [] idx.t = "bool" -> IF (IF idx.b THEN 1 ELSE 0) < len THEN "in" ELSE "out"
      [] idx.t = "float" ->
            IF 0 <= idx.h /\ idx.h < 2 * len THEN "TypeError" ELSE "out"
      [] OTHER -> "TypeError"

\* the list position (1-based) that clauses[idx] addresses
IndexPos(idx) ==
    IF idx.t = "bool" THEN (IF idx.b THEN 2 ELSE 1) ELSE idx.n + 1

-----------------------------------------------------------------------------
(* GeminiClassifier._parse_and_update_clauses *)

\* an item loop that tests  idx < len(clauses)  only, so that a negative
\* index addresses a clause from the end of the batch
ClassifyItem_FromEnd(batch, item) ==
    IF item.t /= "obj" THEN [cl |-> batch, exc |-> "AttributeError"]
    ELSE LET idx == DictGet(item, "index", JInt(-1))
             category == DictGet(item, "category", JStr("General"))
         IN  IF idx.t /= "int" THEN [cl |-> batch, exc |-> "TypeError"]
             ELSE IF idx.n >= Len(batch) THEN [cl |-> batch, exc |-> "none"]
             ELSE IF idx.n < 0 - Len(batch) THEN [cl |-> batch, exc |-> "IndexError"]
             ELSE [cl |-> [batch EXCEPT ![IF idx.n < 0 THEN Len(batch) + idx.n + 1
                                          ELSE idx.n + 1] =
                              DictSet(@, "label", category)],
                   exc |-> "none"]

\* lines 124-127: one turn of  for item in classifications
ClassifyItem(batch, item) ==
    IF item.t /= "obj" THEN [cl |-> batch, exc |-> "AttributeError"]
    ELSE LET idx == DictGet(item, "index", JInt(-1))
             category == DictGet(item, "category", JStr("General"))
             test == IndexTest(idx, Len(batch))
         IN  CASE test = "TypeError" -> [cl |-> batch, exc |-> "TypeError"]
               [] test = "out" -> [cl |-> batch, exc |-> "none"]
               [] test = "in" ->
                    [cl |-> [batch EXCEPT ![IndexPos(idx)] =
                                DictSet(@, "label", category)],
                     exc |-> "none"]

\* lines 123-127: the loop, stopped by the first exception
RECURSIVE ClassifyItems(_, _)
ClassifyItems(batch, items) ==
    IF items = <<>> THEN [cl |-> batch, exc |-> "none"]
    ELSE LET r == ClassifyItem(batch, Head(items))
         IN  IF r.exc /= "none" THEN r ELSE ClassifyItems(r.cl, Tail(items))

\* an except clause that names KeyError alone
Caught_KeyErrorOnly(e) == e \in {"KeyError"}

\* an except clause that catches the errors of the item loop as well
Caught_All(e) ==
    e \in {"JSONDecodeError", "KeyError", "ValueError", "TypeError", "AttributeError"}

\* line 129: except (json.JSONDecodeError, KeyError, ValueError)
Caught(e) == e \in {"JSONDecodeError", "KeyError", "ValueError"}

\* a fallback that does not test  "label" not in clause
DefaultLabels_Overwrite(batch) ==
    [n \in 1..Len(batch) |-> DictSet(batch[n], "label", JStr("General"))]

\* lines 132-134: the fallback of the except branch
DefaultLabels(batch) ==
    [n \in 1..Len(batch) |->
        IF "label" \in DOMAIN batch[n] THEN batch[n]
        ELSE DictSet(batch[n], "label", JStr("General"))]

\* lines 106-134: the batch after the call and the exception that leaves it
ParseAndUpdateLabels(batch, response_text) ==
    LET parsed == JsonLoads(UnwrapCodeFence(response_text))
        it == IF parsed.exc = "none" THEN Iterate(parsed.v)
              ELSE [exc |-> parsed.exc, items |-> <<>>]
        r == IF it.exc = "none" THEN ClassifyItems(batch, it.items)
             ELSE [cl |-> batch, exc |-> it.exc]
    IN  IF r.exc /= "none" /\ Caught(r.exc)
        THEN [cl |-> DefaultLabels(r.cl), exc |-> "none"]
        ELSE r

-----------------------------------------------------------------------------
(* GeminiExtractor._parse_and_update_clauses *)

\* lines 137-144: one turn of  for item in extractions
ExtractItem(batch, item) ==
    IF item.t /= "obj" THEN [cl |-> batch, exc |-> "AttributeError"]
    ELSE LET idx == DictGet(item, "index", JInt(-1))
             has_obligation == DictGet(item, "has_obligation", JBool(FALSE))
             obligation_details == DictGet(item, "obligation_details", JStr(""))
             test == IndexTest(idx, Len(batch))
         IN  CASE test = "TypeError" -> [cl |-> batch, exc |-> "TypeError"]
               [] test = "out" -> [cl |-> batch, exc |-> "none"]
               [] test = "in" ->
                    LET c1 == DictSet(batch[IndexPos(idx)], "has_obligation",
                                      has_obligation)
                        c2 == IF Truthy(has_obligation) /\ Truthy(obligation_details)
                              THEN DictSet(c1, "obligation_details", obligation_details)
                              ELSE c1
                    IN  [cl |-> [batch EXCEPT ![IndexPos(idx)] = c2], exc |-> "none"]

\* lines 136-144: the loop, stopped by the first exception
RECURSIVE ExtractItems(_, _)
ExtractItems(batch, items) ==
    IF items = <<>> THEN [cl |-> batch, exc |-> "none"]
    ELSE LET r == ExtractItem(batch, Head(items))
         IN  IF r.exc /= "none" THEN r ELSE ExtractItems(r.cl, Tail(items))

\* a fallback that does not test  "has_obligation" not in clause
DefaultObligations_Overwrite(batch) ==
    [n \in 1..Len(batch) |-> DictSet(batch[n], "has_obligation", JBool(FALSE))]

\* lines 149-151: the fallback of the except branch
DefaultObligations(batch) ==
    [n \in 1..Len(batch) |->
        IF "has_obligation" \in DOMAIN batch[n] THEN batch[n]
        ELSE DictSet(batch[n], "has_obligation", JBool(FALSE))]

\* lines 119-151: the batch after the call and the exception that leaves it
ParseAndUpdateObligations(batch, response_text) ==
    LET parsed == JsonLoads(UnwrapCodeFence(response_text))
        it == IF parsed.exc = "none" THEN Iterate(parsed.v)
              ELSE [exc |-> parsed.exc, items |-> <<>>]
        r == IF it.exc = "none" THEN ExtractItems(batch, it.items)
             ELSE [cl |-> batch, exc |-> it.exc]
    IN  IF r.exc /= "none" /\ Caught(r.exc)
        THEN [cl |-> DefaultObligations(r.cl), exc |-> "none"]
        ELSE r

-----------------------------------------------------------------------------
(* Texts: sequences of one-character strings *)

\* the characters str.strip() removes that the model's texts use
Whitespace == {" ", "\n", "\t"}

RECURSIVE LStripChars(_)
LStripChars(s) ==
    IF s /= <<>> /\ Head(s) \in Whitespace THEN LStripChars(Tail(s)) ELSE s

RECURSIVE RStripChars(_)
RStripChars(s) ==
    IF s /= <<>> /\ s[Len(s)] \in Whitespace
    THEN RStripChars(SubSeq(s, 1, Len(s) - 1)) ELSE s

\* a strip that removes leading white space only
Strip_LeftOnly(s) == LStripChars(s)

\* clause_text.strip()
Strip(s) == RStripChars(LStripChars(s))

\* text.split('\n\n'): cut at each blank-line boundary, found left to right
RECURSIVE SplitBlankLines(_)
SplitBlankLines(s) ==
    IF \E n \in 1..(Len(s) - 1) : s[n] = "\n" /\ s[n + 1] = "\n"
    THEN LET n == CHOOSE m \in 1..(Len(s) - 1) :
                    /\ s[m] = "\n" /\ s[m + 1] = "\n"
                    /\ \A l \in 1..(m - 1) : ~(s[l] = "\n" /\ s[l + 1] = "\n")
         IN  <<SubSeq(s, 1, n - 1)>> \o SplitBlankLines(SubSeq(s, n + 2, Len(s)))
    ELSE <<s>>

Digits == <<"0", "1", "2", "3", "4", "5", "6", "7", "8", "9">>

\* str(n) for n >= 0, as f"{n}" formats it
RECURSIVE ToStr(_)
ToStr(n) == IF n < 10 THEN Digits[n + 1] ELSE ToStr(n \div 10) \o Digits[(n % 10) + 1]

\* an id that leaves the page out
ClauseId_NoPage(page_num, i) == "clause_" \o ToStr(i + 1)

\* f"page_{page_num+1}_clause_{i+1}"
ClauseId(page_num, i) == "page_" \o ToStr(page_num + 1) \o "_clause_" \o ToStr(i + 1)

-----------------------------------------------------------------------------
(* PDFIngestor.ingest *)

\* lines 13-19: the clauses of one page, from segment i (0-based) on, each
\* with the ordinal it was cut at
RECURSIVE PageClauses(_, _, _)
PageClauses(segs, i, page_num) ==
    IF i >= Len(segs) THEN <<>>
    ELSE (IF Strip(segs[i + 1]) /= <<>>
          THEN <<[c |-> [id |-> ClauseId(page_num, i),
                         text |-> Strip(segs[i + 1]),
                         page |-> page_num + 1],
                  ord |-> i]>>
          ELSE <<>>)
         \o PageClauses(segs, i + 1, page_num)

\* lines 9-20: the pages from page_num (0-based) on
RECURSIVE IngestFrom(_, _)
IngestFrom(document, page_num) ==
    IF page_num >= Len(document) THEN <<>>
    ELSE PageClauses(SplitBlankLines(document[page_num + 1]), 0, page_num)
         \o IngestFrom(document, page_num + 1)

\* lines 6-20: the clause list ingest returns
Ingest(document) ==
    LET r == IngestFrom(document, 0) IN [n \in 1..Len(r) |-> r[n].c]

\* the enumerate() ordinal of each clause ingest returns
IngestOrds(document) ==
    LET r == IngestFrom(document, 0) IN [n \in 1..Len(r) |-> r[n].ord]

-----------------------------------------------------------------------------
(* LegalClassifier.classify and ObligationExtractor.extract *)

UpperCase ==
    <<"A", "B", "C", "D", "E", "F", "G", "H", "I", "J", "K", "L", "M",
      "N", "O", "P", "Q", "R", "S", "T", "U", "V", "W", "X", "Y", "Z">>

LowerCase ==
    <<"a", "b", "c", "d", "e", "f", "g", "h", "i", "j", "k", "l", "m",
      "n", "o", "p", "q", "r", "s", "t", "u", "v", "w", "x", "y", "z">>

\* ch.lower()
LowerChar(ch) ==
    IF \E n \in 1..26 : UpperCase[n] = ch
    THEN LowerCase[CHOOSE n \in 1..26 : UpperCase[n] = ch]
    ELSE ch

\* clause['text'].lower()
Lower(s) == [n \in 1..Len(s) |-> LowerChar(s[n])]

\* sub in s
Contains(s, sub) ==
    \E n \in 1..(Len(s) - Len(sub) + 1) : SubSeq(s, n, n + Len(sub) - 1) = sub

KwTermination ==
    <<"t", "e", "r", "m", "i", "n", "a", "t", "i", "o", "n">>

KwIndemnify ==
    <<"i", "n", "d", "e", "m", "n", "i", "f", "y">>

KwIndemnification ==
    <<"i", "n", "d", "e", "m", "n", "i", "f", "i", "c", "a", "t", "i", "o",
      "n">>

KwConfidentiality ==
    <<"c", "o", "n", "f", "i", "d", "e", "n", "t", "i", "a", "l", "i", "t",
      "y">>

KwShall ==
    <<"s", "h", "a", "l", "l">>

KwMust ==
    <<"m", "u", "s", "t">>

\* a classifier that matches the stems "terminat" and "confidential"
RuleLabel_Stems(text) ==
    LET low == Lower(text)
    IN  IF Contains(low, SubSeq(KwTermination, 1, 8)) THEN "Termination"
        ELSE IF Contains(low, KwIndemnify) \/ Contains(low, KwIndemnification)
             THEN "Indemnification"
        ELSE IF Contains(low, SubSeq(KwConfidentiality, 1, 12)) THEN "Confidentiality"
        ELSE "General"

\* legal_classifier.py lines 7-15: the label of one clause text
RuleLabel(text) ==
    LET low == Lower(text)
    IN  IF Contains(low, KwTermination) THEN "Termination"
        ELSE IF Contains(low, KwIndemnify) \/ Contains(low, KwIndemnification)
             THEN "Indemnification"
        ELSE IF Contains(low, KwConfidentiality) THEN "Confidentiality"
        ELSE "General"

\* legal_classifier.py lines 5-16
LegalClassify(list) ==
    [n \in 1..Len(list) |-> DictSet(list[n], "label", JStr(RuleLabel(list[n].text)))]

\* an extractor that looks for "shall" alone
RuleObligation_ShallOnly(text) == Contains(Lower(text), KwShall)

\* obligation_extractor.py lines 7-11: the flag of one clause text
RuleObligation(text) ==
    LET low == Lower(text) IN Contains(low, KwShall) \/ Contains(low, KwMust)

\* obligation_extractor.py lines 5-12
ObligationExtract(list) ==
    [n \in 1..Len(list) |->
        DictSet(list[n], "has_obligation", JBool(RuleObligation(list[n].text)))]

-----------------------------------------------------------------------------
(* GeminiSummarizer.summarize and LegalAgentOrchestrator.generate_summary *)

\* text[:200], texts[:3] and obligation_clauses[:5]
text_cut == 200

max_texts == 3

max_obligations == 5

\* a slice that keeps the whole sequence
Prefix_All(s, n) == s

\* s[:n]
Prefix(s, n) == SubSeq(s, 1, Min(n, Len(s)))

\* clause.get(key, default) on a clause dict
ClauseGet(clause, key, default) ==
    IF key \in DOMAIN clause THEN clause[key] ELSE default

\* a value that can be a dict key (a list or a dict cannot)
Hashable(v) == v.t \notin {"arr", "obj"}

\* no prompt has been built
NoPrompt ==
    [exc |-> "none", built |-> FALSE, total |-> 0, obligations |-> 0,
     categories |-> <<>>, key |-> <<>>]

\* the first loop: categorized (a dict, kept in insertion order, from the
\* category to the texts of its clauses) and obligation_clauses
RECURSIVE Organize(_, _)
Organize(list, acc) ==
    IF list = <<>> \/ acc.exc /= "none" THEN acc
    ELSE LET clause == Head(list)
             category == ClauseGet(clause, "label", JStr("General"))
         IN  IF ~Hashable(category) THEN [acc EXCEPT !.exc = "TypeError"]
             ELSE LET known == \E e \in 1..Len(acc.categorized) :
                                  acc.categorized[e].category = category
                      cats == IF known THEN acc.categorized
                              ELSE Append(acc.categorized,
                                          [category |-> category, texts |-> <<>>])
                      added == [e \in 1..Len(cats) |->
                                  IF cats[e].category = category
                                  THEN [cats[e] EXCEPT !.texts = Append(@, clause.text)]
                                  ELSE cats[e]]
                      obl == IF Truthy(ClauseGet(clause, "has_obligation", JBool(FALSE)))
                             THEN Append(acc.obligation_clauses, clause)
                             ELSE acc.obligation_clauses
                  IN  Organize(Tail(list),
                               [categorized |-> added, obligation_clauses |-> obl,
                                exc |-> "none"])

\* clause.get('obligation_details', clause['text'][:200])
ObligationDetail(clause) ==
    IF "obligation_details" \in DOMAIN clause
    THEN [kind |-> "details", v |-> clause.obligation_details, text |-> <<>>]
    ELSE [kind |-> "text", v |-> JNull, text |-> Prefix(clause.text, text_cut)]

\* what the prompt reports: the two counts of its head, for each category its
\* name, its count and the texts listed under it, and the lines of the key
\* obligations section; or the TypeError of a label that cannot be a dict key
SummaryPrompt(list) ==
    LET o == Organize(list, [categorized |-> <<>>, obligation_clauses |-> <<>>,
                             exc |-> "none"])
        shown == Prefix(o.obligation_clauses, max_obligations)
    IN  IF o.exc /= "none" THEN [NoPrompt EXCEPT !.exc = o.exc]
        ELSE [exc |-> "none",
              built |-> TRUE,
              total |-> Len(list),
              obligations |-> Len(o.obligation_clauses),
              categories |->
                  [e \in 1..Len(o.categorized) |->
                      LET texts == o.categorized[e].texts
                          listed == Prefix(texts, max_texts)
                      IN  [category |-> o.categorized[e].category,
                           count |-> Len(texts),
                           texts |-> [j \in 1..Len(listed) |->
                                         Prefix(listed[j], text_cut)]]],
              key |-> [j \in 1..Len(shown) |-> ObligationDetail(shown[j])]]

-----------------------------------------------------------------------------
(* Documents *)

\* page 1 of the two-page scenario document
ScenarioPage1 ==
    <<"T", "h", "i", "s", " ", "A", "g", "r", "e", "e", "m", "e", "n", "t",
      " ", "s", "h", "a", "l", "l", " ", "t", "e", "r", "m", "i", "n", "a",
      "t", "e", " ", "u", "p", "o", "n", " ", "3", "0", " ", "d", "a", "y",
      "s", " ", "n", "o", "t", "i", "c", "e", ".", "\n", "\n", "C", "o",
      "n", "f", "i", "d", "e", "n", "t", "i", "a", "l", " ", "i", "n", "f",
      "o", "r", "m", "a", "t", "i", "o", "n", " ", "m", "u", "s", "t", " ",
      "n", "o", "t", " ", "b", "e", " ", "d", "i", "s", "c", "l", "o", "s",
      "e", "d", ".">>

\* page 2 of the two-page scenario document
ScenarioPage2 ==
    <<"G", "e", "n", "e", "r", "a", "l", " ", "t", "e", "r", "m", "s", " ",
      "a", "p", "p", "l", "y", ".">>

ScenarioDoc == <<ScenarioPage1, ScenarioPage2>>

\* a page of n one-letter paragraphs
RECURSIVE Paragraphs(_)
Paragraphs(n) ==
    IF n = 0 THEN <<>>
    ELSE IF n = 1 THEN <<"a">>
    ELSE <<"a", "\n", "\n">> \o Paragraphs(n - 1)

\* a page whose paragraphs hold the classifier's and the extractor's keywords
KeywordPage ==
    <<"T", "e", "r", "m", "i", "n", "a", "t", "i", "o", "n", " ", "r", "e",
      "q", "u", "i", "r", "e", "s", " ", "n", "o", "t", "i", "c", "e", ".",
      "\n", "\n", "S", "e", "l", "l", "e", "r", " ", "s", "h", "a", "l",
      "l", " ", "i", "n", "d", "e", "m", "n", "i", "f", "y", " ", "B", "u",
      "y", "e", "r", ".", "\n", "\n", " ", "\n", "\n", "T", "h", "e", " ",
      "c", "o", "n", "f", "i", "d", "e", "n", "t", "i", "a", "l", "i", "t",
      "y", " ", "d", "u", "t", "y", " ", "M", "U", "S", "T", " ", "s", "u",
      "r", "v", "i", "v", "e", ".">>

\* a page with inflected forms of "indemnify": "Seller indemnifies Buyer.",
\* "Buyer is Indemnified.", "Indemnification survives termination."
IndemnifiesPage ==
    <<"S", "e", "l", "l", "e", "r", " ", "i", "n", "d", "e", "m", "n", "i",
      "f", "i", "e", "s", " ", "B", "u", "y", "e", "r", ".", "\n", "\n",
      "B", "u", "y", "e", "r", " ", "i", "s", " ", "I", "n", "d", "e", "m",
      "n", "i", "f", "i", "e", "d", ".", "\n", "\n", "I", "n", "d", "e",
      "m", "n", "i", "f", "i", "c", "a", "t", "i", "o", "n", " ", "s", "u",
      "r", "v", "i", "v", "e", "s", " ", "t", "e", "r", "m", "i", "n", "a",
      "t", "i", "o", "n", ".">>

-----------------------------------------------------------------------------
(* FaissRetriever *)

\* the query process_document and main ask: "What are the termination conditions?"
TerminationQuery ==
    <<"W", "h", "a", "t", " ", "a", "r", "e", " ", "t", "h", "e", " ", "t", "e",
      "r", "m", "i", "n", "a", "t", "i", "o", "n", " ", "c", "o", "n", "d", "i",
      "t", "i", "o", "n", "s", "?">>

\* self._index = None
NoIndex == [built |-> FALSE, vecs |-> <<>>]

\* faiss.IndexFlatL2 holding the given vectors
FlatIndex(vecs) == [built |-> TRUE, vecs |-> vecs]

\* lines 8-12: __init__ (the embedding model has encoded nothing yet)
RetrieverInit ==
    /\ r_index = NoIndex
    /\ r_clauses = <<>>
    /\ rcall = [op |-> "none", query |-> <<>>, k |-> 0]
    /\ result = <<>>

\* no run of process_document is under way
NoFailure == [stage |-> "none", raised |-> FALSE, bi |-> 0]

PipelineIdle ==
    /\ api_key = ""
    /\ summary = JNull
    /\ failure = NoFailure
    /\ snap = <<>>
    /\ fromModel = {}
    /\ calls = <<>>
    /\ prompt = NoPrompt

\* the queries asked of the retriever
Queries == {TerminationQuery, <<"a">>}

\* the texts the embedding model may be asked to encode for a document
EncodedTexts(document) ==
    {Ingest(document)[n].text : n \in 1..Len(Ingest(document))} \cup Queries

\* SentenceTransformer.encode is a function of the text (embeddings are
\* points on a line): every such function with coordinates up to MaxCoord
Encoders(document) == [EncodedTexts(document) -> 0..MaxCoord]

\* the embedding model that maps a text to its length
LengthEncoder(document) == [t \in EncodedTexts(document) |-> Len(t)]

\* the squared L2 distance IndexFlatL2 reports
L2(x, y) == (x - y) * (x - y)

\* the ways to list the m vectors nearest to qv among those at the positions
\* rest, nearest first; the order among equally distant vectors is left to
\* the library
RECURSIVE NearestFirst(_, _, _, _)
NearestFirst(vecs, qv, m, rest) ==
    IF m = 0 THEN {<<>>}
    ELSE LET best == {o \in rest :
                        \A other \in rest : L2(vecs[o], qv) <= L2(vecs[other], qv)}
         IN  UNION {{<<o>> \o t : t \in NearestFirst(vecs, qv, m - 1, rest \ {o})} :
                      o \in best}

\* self._index.search(query_embedding, k)[1][0]: the labels row, 0-based,
\* nearest first, filled with -1 when the index holds fewer than k vectors
FaissSearch(vecs, qv, k) ==
    LET n == Len(vecs)
        m == Min(k, n)
    IN  { [j \in 1..k |-> IF j <= m THEN top[j] - 1 ELSE -1] :
            top \in NearestFirst(vecs, qv, m, 1..n) }

\* self.clauses[i] for each label i of the row: the position (1-based) a
\* Python list index addresses (a negative index counts from the end), 0 for
\* an index out of range
ListRefs(list, row) ==
    [j \in 1..Len(row) |->
        IF row[j] >= 0
        THEN (IF row[j] < Len(list) THEN row[j] + 1 ELSE 0)
        ELSE (IF Len(list) + row[j] >= 0 THEN Len(list) + row[j] + 1 ELSE 0)]

\* a retriever that searches without the guard
IndexMissing_NoGuard(index) == FALSE

\* line 21: if not self._index
IndexMissing(index) == ~index.built

\* lines 20-25: what retrieve(query, k) may return or raise, the query
\* embedding being qv
RetrieveOutcomes(index, list, qv, k) ==
    IF IndexMissing(index) THEN {[result |-> <<>>, exc |-> "none"]}
    ELSE IF ~index.built THEN {[result |-> <<>>, exc |-> "AttributeError"]}
    ELSE IF k <= 0 THEN {[result |-> <<>>, exc |-> "AssertionError"]}
    ELSE { IF \E j \in 1..k : ListRefs(list, row)[j] = 0
           THEN [result |-> <<>>, exc |-> "IndexError"]
           ELSE [result |-> ListRefs(list, row), exc |-> "none"] :
             row \in FaissSearch(index.vecs, qv, k) }

\* lines 14-18: index(clauses)
RetrieverIndex(list) ==
    /\ rcall' = [op |-> "index", query |-> <<>>, k |-> 0]
    /\ result' = <<>>
    /\ r_clauses' = list
    /\ encoder' = encoder
    /\ IF list = <<>>
       THEN exc' = "IndexError" /\ r_index' = r_index
       ELSE /\ exc' = "none"
            /\ r_index' = FlatIndex([n \in 1..Len(list) |-> encoder[list[n].text]])

\* lines 20-25: retrieve(query, k)
RetrieverRetrieve(query, k) ==
    /\ rcall' = [op |-> "retrieve", query |-> query, k |-> k]
    /\ r_clauses' = r_clauses
    /\ r_index' = r_index
    /\ encoder' = encoder
    /\ \E r \in RetrieveOutcomes(r_index, r_clauses, encoder[query], k) :
          result' = r.result /\ exc' = r.exc

\* the documents whose clauses are handed to the retriever
IndexedDocs ==
    {<<Paragraphs(n)>> : n \in 0..MaxIndexed} \cup {<<<<"a">>, <<"a", "a">>, <<"a">>>>}

RetrInit ==
    /\ pages \in IndexedDocs
    /\ clauses = ObligationExtract(LegalClassify(Ingest(pages)))
    /\ ords = IngestOrds(pages)
    /\ pc = "retriever"
    /\ gemini_model = "None"
    /\ task = "classify"
    /\ bi = 0
    /\ resp = Answer(<<>>)
    /\ handled = -1
    /\ pre = <<>>
    /\ start = <<>>
    /\ allFailed = TRUE
    /\ exc = "none"
    /\ encoder \in Encoders(pages)
    /\ RetrieverInit
    /\ PipelineIdle

\* retriever.index(extracted_clauses)
RetrIndex ==
    /\ pc = "retriever"
    /\ RetrieverIndex(clauses)
    /\ UNCHANGED <<pages, clauses, ords, pc, gemini_model, task, bi, resp, handled,
                   pre, start, allFailed, pvars, calls>>

\* retriever.retrieve(query, k)
RetrRetrieve ==
    /\ pc = "retriever"
    /\ \E query \in Queries, k \in 0..MaxK :
          RetrieverRetrieve(query, k)
    /\ UNCHANGED <<pages, clauses, ords, pc, gemini_model, task, bi, resp, handled,
                   pre, start, allFailed, pvars, calls>>

RetrNext == RetrIndex \/ RetrRetrieve

\* a retriever used on its own: index and retrieve in any order
SpecRetriever == RetrInit /\ [][RetrNext]_vars

-----------------------------------------------------------------------------
(* The annotator: what generate_content_async may answer *)

\* objects a classification response array may hold
ClassifyElems ==
    { JObj([index |-> JInt(0), category |-> JStr("Termination")]),
      JObj([index |-> JInt(1), category |-> JStr("Warranty")]),
      JObj([index |-> JInt(-1), category |-> JStr("Liability")]),
      JObj([index |-> JInt(10), category |-> JStr("Term")]),
      JObj([category |-> JStr("Confidentiality")]),
      JObj([index |-> JInt(0)]) }

\* objects an extraction response array may hold
ExtractElems ==
    { JObj([index |-> JInt(0), has_obligation |-> JBool(TRUE),
            obligation_details |-> JStr("The Buyer shall pay")]),
      JObj([index |-> JInt(0), has_obligation |-> JBool(FALSE),
            obligation_details |-> JStr("")]),
      JObj([index |-> JInt(1), has_obligation |-> JBool(TRUE)]),
      JObj([index |-> JInt(1), has_obligation |-> JStr("yes"),
            obligation_details |-> JStr("The Seller must deliver")]),
      JObj([index |-> JInt(-1), has_obligation |-> JBool(TRUE),
            obligation_details |-> JStr("The Buyer shall pay")]),
      JObj([index |-> JInt(10), has_obligation |-> JBool(TRUE)]) }

Elems(tk) == IF tk = "classify" THEN ClassifyElems ELSE ExtractElems

\* array elements of another shape: no object, or an object whose index is
\* no integer (a string, null, 1.5, true)
OddElems(tk) ==
    { JInt(7), JNull, JStr("x"),
      JObj([index |-> JStr("0")]),
      JObj([index |-> JNull]),
      JObj([index |-> JFloat(3)]),
      JObj([index |-> JBool(TRUE)]) }

\* JSON values that are no array
NonArrays(tk) ==
    { EmptyObj, JInt(3), JStr(""), JStr("x"), JNull, JBool(TRUE) }
        \cup Elems(tk)

\* the ways a JSON text comes wrapped
Wrappings(v) ==
    { <<TVal(v)>>,
      <<TWs, TVal(v), TWs>>,
      <<TFence, TVal(v), TFence>>,
      <<TFence, TTag, TWs, TVal(v), TWs, TFence, TWs>>,
      <<TFence, TTag, TVal(v)>>,
      <<TTag, TVal(v)>> }

\* texts that hold no JSON value at all ("not json", "", "```", ...)
JunkTexts == { <<TJunk>>, <<>>, <<TFence>>, <<TFence, TJunk, TFence>>, <<TWs>> }

\* the response texts of the model: arrays of up to MaxItems objects, arrays
\* ending in an element of another shape, values that are no array, wrapped
\* arrays, and texts that are no JSON
Responses(tk) ==
    {<<TVal(JArr(a))>> : a \in SeqsUpTo(Elems(tk), MaxItems)}
        \cup {<<TVal(JArr(Append(a, e)))>> :
                a \in SeqsUpTo(Elems(tk), 1), e \in OddElems(tk)}
        \cup {<<TVal(v)>> : v \in NonArrays(tk)}
        \cup UNION {Wrappings(JArr(a)) : a \in SeqsUpTo(Elems(tk), 1)}
        \cup JunkTexts

\* the outcomes of one annotator call of each stage
ClassifyOutcomes == {Answer(t) : t \in Responses("classify")} \cup {Raised}

ExtractOutcomes == {Answer(t) : t \in Responses("extract")} \cup {Raised}

Outcomes(tk) == IF tk = "classify" THEN ClassifyOutcomes ELSE ExtractOutcomes

-----------------------------------------------------------------------------
(* GeminiClassifier.classify and GeminiExtractor.extract, batch by batch *)

\* a batch cut that takes one clause more than batch_size
Slice_Overlapping(list, i, j) == SubSeq(list, i + 1, Min(j + 1, Len(list)))

\* clauses[i:j] for 0 <= i
Slice(list, i, j) == SubSeq(list, i + 1, Min(j, Len(list)))

\* a stage that puts the clauses of a batch back in reverse order
WithBatch_Swapped(list, i, batch) ==
    [n \in 1..Len(list) |->
        IF i < n /\ n <= i + Len(batch) THEN batch[Len(batch) + 1 - (n - i)] ELSE list[n]]

\* the list once the dicts of the batch cut at i have been mutated
WithBatch(list, i, batch) ==
    [n \in 1..Len(list) |->
        IF i < n /\ n <= i + Len(batch) THEN batch[n - i] ELSE list[n]]

\* self._parse_and_update_clauses(batch, response_text) of the running stage
ParseAndUpdate(tk, batch, response_text) ==
    IF tk = "classify" THEN ParseAndUpdateLabels(batch, response_text)
    ELSE ParseAndUpdateObligations(batch, response_text)

\* the annotator call did not yield a parseable response
Failed(out) ==
    out.raised \/ JsonLoads(UnwrapCodeFence(out.text)).exc /= "none"

\* values an earlier pass may have left on the clauses
Labelled(c) == DictSet(c, "label", JStr("Payment"))

Obliged(c) ==
    DictSet(DictSet(Labelled(c), "has_obligation", JBool(TRUE)),
            "obligation_details", JStr("The Buyer shall pay"))

\* the clause list a stage is entered with: n ingested clauses of which
\* none, every second one or all carry the stage's field from an earlier pass
\* (a list of more than one batch comes from an earlier pass: every second
\* clause or all)
StageInput(tk, n, prior) ==
    LET cs == Ingest(<<Paragraphs(n)>>)
        base == IF tk = "classify" THEN cs ELSE [m \in 1..Len(cs) |-> Labelled(cs[m])]
        done(c) == IF tk = "classify" THEN Labelled(c) ELSE Obliged(c)
    IN  [m \in 1..Len(cs) |->
            IF prior = "all" \/ (prior = "some" /\ m % 2 = 1)
            THEN done(cs[m]) ELSE base[m]]

StageInit ==
    /\ task \in {"classify", "extract"}
    /\ gemini_model \in {"None", "model"}
    /\ \E n \in 0..MaxClauses :
          \E prior \in (IF n > batch_size THEN {"some", "all"}
                         ELSE {"none", "some", "all"}) :
          /\ pages = <<Paragraphs(n)>>
          /\ clauses = StageInput(task, n, prior)
          /\ ords = IngestOrds(pages)
    /\ pc = "call"
    /\ bi = 0
    /\ resp = Answer(<<>>)
    /\ handled = -1
    /\ pre = clauses
    /\ start = clauses
    /\ allFailed = TRUE
    /\ exc = "none"
    /\ encoder = LengthEncoder(pages)
    /\ RetrieverInit
    /\ PipelineIdle

\* classify lines 58-59, extract lines 64-65: the guard on the model handle
StageEnter ==
    /\ pc = "call"
    /\ IF gemini_model = "None"
       THEN pc' = "raised" /\ exc' = "ValueError"
       ELSE pc' = "loop" /\ exc' = exc
    /\ UNCHANGED <<pages, clauses, ords, gemini_model, task, bi, resp, handled,
                   pre, start, allFailed, rvars, pvars, calls>>

\* classify lines 63-74, extract lines 69-80: one turn of the batch loop
StageBatch ==
    /\ pc = "loop"
    /\ bi < Len(clauses)
    /\ \E out \in Outcomes(task) :
          /\ resp' = out
          /\ handled' = bi
          /\ pre' = clauses
          /\ allFailed' = (allFailed /\ Failed(out))
          /\ IF out.raised
             THEN /\ pc' = "raised"
                  /\ exc' = "Exception"
                  /\ UNCHANGED <<clauses, bi>>
             ELSE \E r \in {ParseAndUpdate(task, Slice(clauses, bi, bi + batch_size),
                                            out.text)} :
                      /\ clauses' = WithBatch(clauses, bi, r.cl)
                      /\ exc' = r.exc
                      /\ pc' = IF r.exc = "none" THEN "loop" ELSE "raised"
                      /\ bi' = IF r.exc = "none" THEN bi + batch_size ELSE bi
    /\ calls' = Append(calls, [stage |-> task, i |-> bi,
                                n |-> Len(Slice(clauses, bi, bi + batch_size))])
    /\ UNCHANGED <<pages, ords, gemini_model, task, start, rvars, pvars>>

\* classify line 76, extract line 82: return clauses
StageReturn ==
    /\ pc = "loop"
    /\ bi >= Len(clauses)
    /\ pc' = "done"
    /\ UNCHANGED <<pages, clauses, ords, gemini_model, task, bi, resp, handled,
                   pre, start, allFailed, exc, rvars, pvars, calls>>

StageNext == StageEnter \/ StageBatch \/ StageReturn

\* one run of a model-backed stage on a clause list
SpecStage == StageInit /\ [][StageNext]_vars

-----------------------------------------------------------------------------
(* main.py: the rule-based command-line pipeline *)

\* the texts of a generated first page: every text of up to MaxPageLen
\* characters over a letter and the newline
GenPages == SeqsUpTo({"a", "\n"}, MaxPageLen)

\* the texts of the pages that follow it: empty, blank, one paragraph, two
\* paragraphs around an empty segment
MorePages ==
    { <<>>, <<"\n", " ">>, <<"a", "a">>,
      <<" ", "a", "\n", "\n", "\n", "\n", "a", "\n">> }

\* the documents of the model: the empty document, every generated first
\* page followed by up to MaxPages - 1 further pages, the scenario document,
\* a document with the keywords and one with inflected forms of a keyword
Documents ==
    {<<>>}
        \cup {<<p>> \o more : p \in GenPages, more \in SeqsUpTo(MorePages, MaxPages - 1)}
        \cup {ScenarioDoc, <<KeywordPage>>, <<IndemnifiesPage>>}

CliInit ==
    /\ pages \in Documents
    /\ clauses = <<>>
    /\ ords = <<>>
    /\ pc = "cli_ingest"
    /\ gemini_model = "None"
    /\ task = "classify"
    /\ bi = 0
    /\ resp = Answer(<<>>)
    /\ handled = -1
    /\ pre = <<>>
    /\ start = <<>>
    /\ allFailed = TRUE
    /\ exc = "none"
    /\ encoder = LengthEncoder(pages)
    /\ RetrieverInit
    /\ PipelineIdle

\* main.py lines 15-16: clauses = ingestor.ingest(file_path)
CliIngest ==
    /\ pc = "cli_ingest"
    /\ clauses' = Ingest(pages)
    /\ ords' = IngestOrds(pages)
    /\ pc' = "cli_classify"
    /\ UNCHANGED <<pages, gemini_model, task, bi, resp, handled, pre, start,
                   allFailed, exc, rvars, pvars, calls>>

\* main.py lines 19-20: classified_clauses = classifier.classify(clauses)
CliClassify ==
    /\ pc = "cli_classify"
    /\ clauses' = LegalClassify(clauses)
    /\ pc' = "cli_extract"
    /\ UNCHANGED <<pages, ords, gemini_model, task, bi, resp, handled, pre, start,
                   allFailed, exc, rvars, pvars, calls>>

\* main.py lines 23-24: extracted_clauses = extractor.extract(classified_clauses)
CliExtract ==
    /\ pc = "cli_extract"
    /\ clauses' = ObligationExtract(clauses)
    /\ pc' = "cli_index"
    /\ UNCHANGED <<pages, ords, gemini_model, task, bi, resp, handled, pre, start,
                   allFailed, exc, rvars, pvars, calls>>

\* main.py lines 27-28: retriever.index(extracted_clauses); an exception of
\* index ends the program
CliIndex ==
    /\ pc = "cli_index"
    /\ RetrieverIndex(clauses)
    /\ pc' = IF clauses = <<>> THEN "cli_raised" ELSE "cli_retrieve"
    /\ UNCHANGED <<pages, clauses, ords, gemini_model, task, bi, resp, handled,
                   pre, start, allFailed, pvars, calls>>

\* main.py line 29: retriever.retrieve("What are the termination conditions?")
CliRetrieve ==
    /\ pc = "cli_retrieve"
    /\ RetrieverRetrieve(TerminationQuery, default_k)
    /\ pc' = "cli_summarize"
    /\ UNCHANGED <<pages, clauses, ords, gemini_model, task, bi, resp, handled,
                   pre, start, allFailed, pvars, calls>>

\* main.py lines 32-33: summarizer.initialize() is called without the api_key
\* argument that GeminiSummarizer.initialize (gemini_summarizer.py line 10)
\* requires: the call raises TypeError and main ends before lines 34-45
CliSummarize ==
    /\ pc = "cli_summarize"
    /\ exc' = "TypeError"
    /\ pc' = "cli_raised"
    /\ UNCHANGED <<pages, clauses, ords, gemini_model, task, bi, resp, handled,
                   pre, start, allFailed, rvars, pvars, calls>>

CliNext ==
    \/ CliIngest
    \/ CliClassify
    \/ CliExtract
    \/ CliIndex
    \/ CliRetrieve
    \/ CliSummarize

\* the command-line pipeline on one document
SpecCli == CliInit /\ [][CliNext]_vars

-----------------------------------------------------------------------------
(* streamlit_app.py: process_document, the pipeline driver *)

\* a page of n paragraphs of 1, 2, .. n letters
RECURSIVE GradedParagraphs(_)
GradedParagraphs(n) ==
    IF n = 0 THEN <<>>
    ELSE IF n = 1 THEN <<"a">>
    ELSE GradedParagraphs(n - 1) \o <<"\n", "\n">> \o [m \in 1..n |-> "a"]

\* the documents the pipeline is run on: no page, a blank page, a document
\* of two batches, two equal paragraphs, a page whose paragraphs stand in
\* white space around an empty segment, the scenario document and the
\* keyword page
PipelineDocs ==
    { <<>>, <<<<" ", "\n">>>>, <<GradedParagraphs(MaxClauses)>>, <<Paragraphs(2)>>,
      <<<<" ", "a", "\n", "\n", "\n", "\n", "a", "\n">>>>,
      ScenarioDoc, <<KeywordPage>> }

\* what the annotator answers in a pipeline run: it raises, answers text that
\* is no JSON, an empty array, a full answer for two clauses, a fenced
\* answer, or an array whose second element is no object
PipelineClassifyOutcomes ==
    { Raised,
      Answer(<<TJunk>>),
      Answer(<<TVal(JArr(<<>>))>>),
      Answer(<<TVal(JArr(<<JObj([index |-> JInt(0), category |-> JStr("Termination")]),
                           JObj([index |-> JInt(1), category |-> JStr("Warranty")])>>))>>),
      Answer(<<TFence, TTag, TWs,
               TVal(JArr(<<JObj([index |-> JInt(0), category |-> JStr("Payment")])>>)),
               TWs, TFence>>),
      Answer(<<TVal(JArr(<<JObj([index |-> JInt(0), category |-> JStr("Term")]),
                           JInt(7)>>))>>) }

PipelineExtractOutcomes ==
    { Raised,
      Answer(<<TJunk>>),
      Answer(<<TVal(JArr(<<>>))>>),
      Answer(<<TVal(JArr(<<JObj([index |-> JInt(0), has_obligation |-> JBool(TRUE),
                                 obligation_details |-> JStr("The Buyer shall pay")]),
                           JObj([index |-> JInt(1), has_obligation |-> JBool(FALSE),
                                 obligation_details |-> JStr("")])>>))>>),
      Answer(<<TFence, TTag, TWs,
               TVal(JArr(<<JObj([index |-> JInt(0), has_obligation |-> JBool(TRUE)])>>)),
               TWs, TFence>>),
      Answer(<<TVal(JArr(<<JObj([index |-> JInt(0), has_obligation |-> JStr("yes"),
                                 obligation_details |-> JStr("The Seller must deliver")]),
                           JInt(7)>>))>>) }

PipelineOutcomes(tk) ==
    IF tk = "classify" THEN PipelineClassifyOutcomes ELSE PipelineExtractOutcomes

\* the key a model-backed stage writes
FieldOf(tk) == IF tk = "classify" THEN "label" ELSE "has_obligation"

\* the try block of classify_clauses / extract_obligations: the same
\* statements as _parse_and_update_clauses of the stage's class
OrchestratorParse(tk, batch, response_text) ==
    ParseAndUpdate(tk, batch, response_text)

\* the positions of the list (batch cut at i) whose stage key the items of a
\* decoded response wrote
WrittenFromItems(tk, i, batch, response_text, after) ==
    IF JsonLoads(UnwrapCodeFence(response_text)).exc /= "none" THEN {}
    ELSE {[n |-> i + m, field |-> FieldOf(tk)] :
            m \in {m \in 1..Len(batch) :
                     /\ FieldOf(tk) \in DOMAIN after[m]
                     /\ (FieldOf(tk) \in DOMAIN batch[m] =>
                            batch[m][FieldOf(tk)] /= after[m][FieldOf(tk)])}}

PipelineInit ==
    /\ pages \in PipelineDocs
    /\ api_key \in {"", "key"}
    /\ clauses = <<>>
    /\ ords = <<>>
    /\ pc = "pd_ingest"
    /\ gemini_model = "None"
    /\ task = "classify"
    /\ bi = 0
    /\ resp = Answer(<<>>)
    /\ handled = -1
    /\ pre = <<>>
    /\ start = <<>>
    /\ allFailed = TRUE
    /\ exc = "none"
    /\ encoder = LengthEncoder(pages)
    /\ RetrieverInit
    /\ summary = JNull
    /\ failure = NoFailure
    /\ snap = <<>>
    /\ fromModel = {}
    /\ calls = <<>>
    /\ prompt = NoPrompt

\* lines 237-251: ingestion, and the locals set before the try block
PdIngest ==
    /\ pc = "pd_ingest"
    /\ clauses' = Ingest(pages)
    /\ ords' = IngestOrds(pages)
    /\ summary' = JNull
    /\ pc' = "pd_try"
    /\ UNCHANGED <<pages, gemini_model, task, bi, resp, handled, pre, start,
                   allFailed, exc, rvars, api_key, failure, snap, fromModel, calls, prompt>>

\* the try block is left by an exception: control goes to line 289
EnterExcept(stage, raised) ==
    /\ failure' = [stage |-> stage, raised |-> raised, bi |-> bi]
    /\ pc' = "pd_except"

\* lines 255-260: orchestrator.initialize(api_key); configuring the client or
\* constructing the model or an agent may raise
PdInitialize ==
    /\ pc = "pd_try"
    /\ api_key /= ""
    /\ \/ /\ gemini_model' = "model"
          /\ pc' = "pd_classify"
          /\ UNCHANGED <<failure, snap>>
       \/ /\ EnterExcept("initialize", TRUE)
          /\ snap' = clauses
          /\ UNCHANGED gemini_model
    /\ bi' = 0
    /\ UNCHANGED <<pages, clauses, ords, task, resp, handled, pre, start,
                   allFailed, exc, rvars, api_key, summary, fromModel, calls, prompt>>

\* lines 277-287: no key was given, the rule-based stages run inside the try
PdRuleBased ==
    /\ pc = "pd_try"
    /\ api_key = ""
    /\ clauses' = ObligationExtract(LegalClassify(clauses))
    /\ pc' = "pd_index"
    /\ UNCHANGED <<pages, ords, gemini_model, task, bi, resp, handled, pre, start,
                   allFailed, exc, rvars, pvars, calls>>

\* one turn of the batch loop of classify_clauses (lines 162-203) or of
\* extract_obligations (lines 222-274), called at lines 264 and 269
OrchestratorBatch(tk) ==
    /\ bi < Len(clauses)
    /\ \E out \in PipelineOutcomes(tk) :
          IF out.raised
          THEN /\ EnterExcept(tk, TRUE)
               /\ snap' = clauses
               /\ UNCHANGED <<clauses, bi, fromModel>>
          ELSE \E r \in {OrchestratorParse(tk, Slice(clauses, bi, bi + batch_size),
                                           out.text)} :
                  /\ clauses' = WithBatch(clauses, bi, r.cl)
                  /\ fromModel' = fromModel \cup
                        WrittenFromItems(tk, bi, Slice(clauses, bi, bi + batch_size),
                                         out.text, r.cl)
                  /\ IF r.exc = "none"
                     THEN /\ bi' = bi + batch_size
                          /\ UNCHANGED <<pc, failure, snap>>
                     ELSE /\ EnterExcept(tk, FALSE)
                          /\ snap' = clauses'
                          /\ bi' = bi
    /\ calls' = Append(calls, [stage |-> tk, i |-> bi,
                                n |-> Len(Slice(clauses, bi, bi + batch_size))])
    /\ UNCHANGED <<pages, ords, gemini_model, task, resp, handled, pre, start,
                   allFailed, exc, rvars, api_key, summary, prompt>>

PdClassifyBatch ==
    /\ pc = "pd_classify"
    /\ OrchestratorBatch("classify")

\* line 205: return clauses; line 264 binds classified_clauses to the list
PdClassifyReturn ==
    /\ pc = "pd_classify"
    /\ bi >= Len(clauses)
    /\ pc' = "pd_extract"
    /\ bi' = 0
    /\ UNCHANGED <<pages, clauses, ords, gemini_model, task, resp, handled, pre,
                   start, allFailed, exc, rvars, pvars, calls>>

PdExtractBatch ==
    /\ pc = "pd_extract"
    /\ OrchestratorBatch("extract")

\* line 276: return clauses; line 269 binds extracted_clauses to the list
PdExtractReturn ==
    /\ pc = "pd_extract"
    /\ bi >= Len(clauses)
    /\ pc' = "pd_summary"
    /\ bi' = 0
    /\ UNCHANGED <<pages, clauses, ords, gemini_model, task, resp, handled, pre,
                   start, allFailed, exc, rvars, pvars, calls>>

\* line 274: summary = await orchestrator.generate_summary(extracted_clauses);
\* the prompt is built and the one annotator call raises or answers a text,
\* possibly empty
PdSummary ==
    /\ pc = "pd_summary"
    /\ \E p \in {SummaryPrompt(clauses)} :
          /\ prompt' = p
          /\ IF p.exc /= "none"
             THEN /\ EnterExcept("summarize", TRUE)
                  /\ snap' = clauses
                  /\ UNCHANGED <<summary, calls>>
             ELSE /\ calls' = Append(calls, [stage |-> "summarize", i |-> 0,
                                             n |-> p.total])
                  /\ \/ /\ EnterExcept("summarize", TRUE)
                        /\ snap' = clauses
                        /\ UNCHANGED summary
                     \/ /\ summary' \in {JStr("## Document Overview"), JStr("")}
                        /\ pc' = "pd_index"
                        /\ UNCHANGED <<failure, snap>>
    /\ UNCHANGED <<pages, clauses, ords, gemini_model, task, bi, resp, handled, pre,
                   start, allFailed, exc, rvars, api_key, fromModel>>

\* a handler that lets the exception leave process_document
PdExcept_Reraise ==
    /\ pc = "pd_except"
    /\ pc' = "pd_raised"
    /\ exc' = "Exception"
    /\ UNCHANGED <<pages, clauses, ords, gemini_model, task, bi, resp, handled, pre,
                   start, allFailed, rvars, pvars, calls>>

\* lines 289-298: except Exception: both rule-based stages over all clauses
PdExcept ==
    /\ pc = "pd_except"
    /\ clauses' = ObligationExtract(LegalClassify(clauses))
    /\ pc' = "pd_index"
    /\ UNCHANGED <<pages, ords, gemini_model, task, bi, resp, handled, pre, start,
                   allFailed, exc, rvars, pvars, calls>>

\* an index step that stores each embedding on its clause
PdIndex_Embedding ==
    /\ pc = "pd_index"
    /\ RetrieverIndex(clauses)
    /\ clauses' = [n \in 1..Len(clauses) |->
                      DictSet(clauses[n], "embedding", JInt(encoder[clauses[n].text]))]
    /\ pc' = IF clauses = <<>> THEN "pd_raised" ELSE "pd_retrieve"
    /\ UNCHANGED <<pages, ords, gemini_model, task, bi, resp, handled,
                   pre, start, allFailed, pvars, calls>>

\* lines 302-303: retriever = FaissRetriever(); retriever.index(extracted_clauses);
\* an exception of index leaves process_document
PdIndex ==
    /\ pc = "pd_index"
    /\ RetrieverIndex(clauses)
    /\ pc' = IF clauses = <<>> THEN "pd_raised" ELSE "pd_retrieve"
    /\ UNCHANGED <<pages, clauses, ords, gemini_model, task, bi, resp, handled,
                   pre, start, allFailed, pvars, calls>>

\* lines 304-307: retrieve with the default k, then return
PdRetrieve ==
    /\ pc = "pd_retrieve"
    /\ RetrieverRetrieve(TerminationQuery, default_k)
    /\ pc' = "pd_return"
    /\ UNCHANGED <<pages, clauses, ords, gemini_model, task, bi, resp, handled,
                   pre, start, allFailed, pvars, calls>>

PipelineNext ==
    \/ PdIngest
    \/ PdInitialize
    \/ PdRuleBased
    \/ PdClassifyBatch
    \/ PdClassifyReturn
    \/ PdExtractBatch
    \/ PdExtractReturn
    \/ PdSummary
    \/ PdExcept
    \/ PdIndex
    \/ PdRetrieve

\* one run of process_document on one document
SpecPipeline == PipelineInit /\ [][PipelineNext]_vars

\* the positions of a run of process_document
Positions ==
    { "pd_ingest", "pd_try", "pd_classify", "pd_extract", "pd_summary",
      "pd_except", "pd_index", "pd_retrieve", "pd_return", "pd_raised" }

\* the run has neither returned nor raised and moves on: to another position
\* or to another turn of a batch loop
Advance ==
    /\ pc \notin {"pd_return", "pd_raised"}
    /\ pc' \in Positions
    /\ bi' \in 0..(MaxClauses + batch_size)

\* the same run driven to its end: asyncio.run (line 344) runs the coroutine
\* until it returns or raises, so a run that has done neither takes its
\* next step (every step of PipelineNext changes pc or bi)
SpecPipelineFair == SpecPipeline /\ WF_<<pc, bi>>(Advance)

-----------------------------------------------------------------------------
(* GeminiSummarizer.summarize on its own *)

\* a text of n copies of one character
Repeated(ch, n) == [j \in 1..n |-> ch]

\* the clause at position m of a summarizer input: every text has its own
\* length, and a "long" clause has more than text_cut characters
SummaryClause(kind, m) ==
    LET short == [id |-> ClauseId(0, m - 1), text |-> Repeated("a", m)]
        long == [id |-> ClauseId(0, m - 1), text |-> Repeated("b", text_cut + m)]
    IN  CASE kind = "detailed" ->
                [id |-> short.id, text |-> short.text,
                 label |-> JStr("Termination"),
                 has_obligation |-> JBool(TRUE),
                 obligation_details |-> JStr("The Buyer shall pay")]
          [] kind = "long" ->
                [id |-> long.id, text |-> long.text,
                 label |-> JStr("Termination"),
                 has_obligation |-> JBool(TRUE)]
          [] kind = "unlabelled" ->
                [id |-> short.id, text |-> short.text,
                 has_obligation |-> JStr("yes")]
          [] kind = "general" ->
                [id |-> long.id, text |-> long.text,
                 label |-> JStr("General"),
                 obligation_details |-> JStr("The Seller must deliver")]
          [] kind = "listed" ->
                [id |-> short.id, text |-> short.text,
                 label |-> JArr(<<JStr("Term")>>)]

SummaryKinds == {"detailed", "long", "unlabelled", "general"}

\* the clause lists handed to the summarizer: every list of up to
\* MaxSummarized clauses of the four kinds, and lists in which the annotator
\* has left a JSON array as a label
SummaryInputs ==
    { [m \in 1..Len(ks) |-> SummaryClause(ks[m], m)] :
        ks \in SeqsUpTo(SummaryKinds, MaxSummarized) }
      \cup { <<SummaryClause("listed", 1)>>,
             <<SummaryClause("long", 1), SummaryClause("listed", 2)>> }

\* a summarizer whose initialize was never called is entered with the
\* shortest lists only: its guard does not look at the clauses
SummaryInit ==
    /\ pages = <<>>
    /\ clauses \in SummaryInputs
    /\ ords = <<>>
    /\ pc = "summarize"
    /\ gemini_model \in (IF Len(clauses) <= 1 THEN {"None", "model"} ELSE {"model"})
    /\ task = "summarize"
    /\ bi = 0
    /\ resp = Answer(<<>>)
    /\ handled = -1
    /\ pre = <<>>
    /\ start = clauses
    /\ allFailed = TRUE
    /\ exc = "none"
    /\ encoder = LengthEncoder(pages)
    /\ RetrieverInit
    /\ PipelineIdle

\* gemini_summarizer.py lines 42-100: the guard on the model handle, the
\* prompt, the one annotator call and the text of its response
Summarize ==
    /\ pc = "summarize"
    /\ IF gemini_model = "None"
       THEN /\ pc' = "raised"
            /\ exc' = "ValueError"
            /\ UNCHANGED <<prompt, calls, summary>>
       ELSE \E p \in {SummaryPrompt(clauses)} :
               /\ prompt' = p
               /\ IF p.exc /= "none"
                  THEN /\ pc' = "raised"
                       /\ exc' = p.exc
                       /\ UNCHANGED <<calls, summary>>
                  ELSE /\ calls' = Append(calls, [stage |-> "summarize", i |-> 0,
                                                  n |-> p.total])
                       /\ \/ /\ pc' = "raised"
                             /\ exc' = "Exception"
                             /\ UNCHANGED summary
                          \/ /\ pc' = "done"
                             /\ exc' = exc
                             /\ summary' \in {JStr("## Document Overview"), JStr("")}
    /\ UNCHANGED <<pages, clauses, ords, gemini_model, task, bi, resp, handled, pre,
                   start, allFailed, rvars, api_key, failure, snap, fromModel>>

SummaryNext == Summarize

\* one call of summarize on a list of analysed clauses
SpecSummary == SummaryInit /\ [][SummaryNext]_vars

-----------------------------------------------------------------------------
(* Properties of segmentation and of the rule-based stages (SpecCli) *)

\* the labels of the clause list, in order
LabelsOf(list) == [n \in 1..Len(list) |-> list[n].label]

\* C7 (as claimed): on the scenario document the rule-based classifier labels
\* the three clauses Termination, Confidentiality and General.
C7_ScenarioLabelsAsClaimed ==
    (pages = ScenarioDoc /\ pc \notin {"cli_ingest", "cli_classify"}) =>
        LabelsOf(clauses) =
            <<JStr("Termination"), JStr("Confidentiality"), JStr("General")>>

\* C7 (amended): on the scenario document segmentation yields three clauses
\* and the rule-based classifier labels all three General, because neither
\* "terminate" nor "Confidential" contains a keyword of the classifier.
C7_ScenarioLabelsGeneral ==
    (pages = ScenarioDoc /\ pc \notin {"cli_ingest", "cli_classify"}) =>
        LabelsOf(clauses) = <<JStr("General"), JStr("General"), JStr("General")>>

\* C7 witness: the scenario document has been classified.
C7_Witness ==
    /\ pages = ScenarioDoc
    /\ pc = "cli_extract"
    /\ Len(clauses) = 3

\* C10: the clauses ingest produced have pairwise distinct ids and stand in
\* source order: by ascending page, and within a page by ascending position
\* of their segment in the page text (each clause text is the stripped
\* segment at its ordinal).
C10_IdsUniqueInSourceOrder ==
    pc /= "cli_ingest" =>
        /\ Len(ords) = Len(clauses)
        /\ \A a \in 1..Len(clauses) :
              /\ clauses[a].page \in 1..Len(pages)
              /\ ords[a] < Len(SplitBlankLines(pages[clauses[a].page]))
              /\ clauses[a].text =
                    Strip(SplitBlankLines(pages[clauses[a].page])[ords[a] + 1])
        /\ \A a, b \in 1..Len(clauses) :
              a < b =>
                /\ clauses[a].id /= clauses[b].id
                /\ \/ clauses[a].page < clauses[b].page
                   \/ /\ clauses[a].page = clauses[b].page
                      /\ ords[a] < ords[b]

\* C10 witness: a document of two pages was ingested, the first page giving
\* two clauses and the second at least one.
C10_Witness ==
    /\ pc /= "cli_ingest"
    /\ Len(pages) = 2
    /\ Len(clauses) >= 3
    /\ clauses[1].page = 1 /\ clauses[2].page = 1
    /\ clauses[Len(clauses)].page = 2

\* C14 (as claimed): the command-line run that has classified, extracted,
\* indexed and retrieved does not abort at summarizer initialization: no
\* exception ends it.
C14_CliNoAbortAtSummarizer ==
    rcall.op = "retrieve" =>
        /\ pc /= "cli_raised"
        /\ exc = "none"

\* the stem of the claimed rule
KwIndemnif ==
    <<"i", "n", "d", "e", "m", "n", "i", "f">>

\* the text holds a word that begins with the stem
HasWordBeginning(low, stem) ==
    \E n \in 1..(Len(low) - Len(stem) + 1) :
        /\ SubSeq(low, n, n + Len(stem) - 1) = stem
        /\ n = 1 \/ \A k \in 1..26 : LowerCase[k] /= low[n - 1]

\* the label the claimed rule gives a clause text
ClaimedLabel(text) ==
    LET low == Lower(text)
    IN  IF Contains(low, KwTermination) THEN "Termination"
        ELSE IF HasWordBeginning(low, KwIndemnif) THEN "Indemnification"
        ELSE IF Contains(low, KwConfidentiality) THEN "Confidentiality"
        ELSE "General"

\* C26 (as claimed): once the rule-based classifier has run, every clause
\* carries the label of the first matching rule: "termination", then a word
\* beginning with "indemnif", then "confidentiality", else General.
C26_RuleLabelsByStem ==
    pc \notin {"cli_ingest", "cli_classify"} =>
        \A n \in 1..Len(clauses) :
            /\ "label" \in DOMAIN clauses[n]
            /\ clauses[n].label = JStr(ClaimedLabel(clauses[n].text))

-----------------------------------------------------------------------------
(* Properties of a model-backed stage (SpecStage) *)

\* the closed set of categories (classification prompt, lines 87-95)
Categories ==
    { "Termination", "Indemnification", "Confidentiality", "Payment",
      "Intellectual Property", "Liability", "Dispute Resolution", "Term",
      "General" }

\* the key the running stage writes and the value its fallback gives it
TargetField == IF task = "classify" THEN "label" ELSE "has_obligation"

TargetDefault == IF task = "classify" THEN JStr("General") ELSE JBool(FALSE)

\* the positions (1-based) of the clauses of the last batch handled
LastBatch == {n \in 1..Len(clauses) : handled < n /\ n <= handled + batch_size}

\* the last annotator call answered a text that json.loads rejects
LastNotJson ==
    /\ handled >= 0
    /\ ~resp.raised
    /\ JsonLoads(UnwrapCodeFence(resp.text)).exc = "JSONDecodeError"

\* the JSON value of the last answer, when it is one
LastValue == JsonLoads(UnwrapCodeFence(resp.text)).v

\* a JSON value that is no array of objects with an integer index
WrongShape(v) ==
    \/ v.t /= "arr"
    \/ \E n \in 1..Len(v.a) :
          \/ v.a[n].t /= "obj"
          \/ "index" \in DOMAIN v.a[n].o /\ v.a[n].o["index"].t /= "int"

\* C1 (as claimed): once model-backed classification has returned, every
\* clause carries a label and it is one of the nine categories.
C1_LabelsInCategories ==
    (task = "classify" /\ pc = "done") =>
        \A n \in 1..Len(clauses) :
            /\ "label" \in DOMAIN clauses[n]
            /\ clauses[n].label.t = "str"
            /\ clauses[n].label.s \in Categories

\* C2: when the answer for a batch is not valid JSON, no exception leaves the
\* parse-and-update step and every clause of the batch carries the stage's
\* field afterwards, with the default where it had none before.
C2_ParseFailureDefaults ==
    LastNotJson =>
        /\ exc = "none"
        /\ \A n \in LastBatch :
              /\ TargetField \in DOMAIN clauses[n]
              /\ TargetField \notin DOMAIN pre[n] =>
                    clauses[n][TargetField] = TargetDefault

\* C2 witness: a full batch of ten clauses, none with a prior value, was
\* answered with text that is no JSON, for each of the two stages in turn
\* (the classification one is the state named here).
C2_Witness ==
    /\ LastNotJson
    /\ task = "classify"
    /\ Cardinality(LastBatch) = batch_size
    /\ \A n \in LastBatch : "label" \notin DOMAIN pre[n]
    /\ \A n \in LastBatch : clauses[n].label = JStr("General")

\* C3 (as claimed): an answer that is valid JSON of the wrong shape is handled
\* as a parse failure: nothing propagates and the batch gets its defaults.
C3_WrongShapeIsParseFailure ==
    (handled >= 0 /\ ~resp.raised
        /\ JsonLoads(UnwrapCodeFence(resp.text)).exc = "none"
        /\ WrongShape(LastValue)) =>
        /\ exc = "none"
        /\ \A n \in LastBatch : TargetField \in DOMAIN clauses[n]

C15_DetailsOnlyWithObligation ==
    (task = "extract"
        /\ \A n \in 1..Len(start) : "obligation_details" \notin DOMAIN start[n]) =>
        \A n \in 1..Len(clauses) :
            "obligation_details" \in DOMAIN clauses[n] =>
                /\ "has_obligation" \in DOMAIN clauses[n]
                /\ Truthy(clauses[n].has_obligation)

\* C16 (as claimed): when model-backed classification returns normally, no
\* clause is left without a label: a clause that no response assigned a
\* category to, and that had no label before, has the label General.
C16_UnassignedForcedToGeneral ==
    (task = "classify" /\ pc = "done") =>
        \A n \in 1..Len(clauses) :
            /\ "label" \in DOMAIN clauses[n]
            /\ (clauses[n] = start[n] /\ "label" \notin DOMAIN start[n]) =>
                    clauses[n].label = JStr("General")

\* the last answer is a JSON array of objects whose "index", where present,
\* is an integer
LastWellShaped ==
    /\ handled >= 0
    /\ ~resp.raised
    /\ JsonLoads(UnwrapCodeFence(resp.text)).exc = "none"
    /\ ~WrongShape(LastValue)

\* the last answer holds an item whose index is the 0-based batch position i
ItemNames(i) ==
    \E m \in 1..Len(LastValue.a) :
        /\ "index" \in DOMAIN LastValue.a[m].o
        /\ LastValue.a[m].o["index"] = JInt(i)

\* C17: an answer of well-shaped items raises nothing, and a clause it
\* changed is a clause of the current batch whose 0-based batch position some
\* item names: an item with a negative index or an index at or beyond the
\* batch length changes no clause, in this batch or any other.
C17_OutOfRangeIndexIgnored ==
    LastWellShaped =>
        /\ exc = "none"
        /\ Len(clauses) = Len(pre)
        /\ \A n \in 1..Len(clauses) :
              clauses[n] /= pre[n] =>
                  /\ n \in LastBatch
                  /\ ItemNames(n - handled - 1)

\* C17 witness: the first batch of a list of more than batch_size clauses was
\* answered with an item of index -1 and an item of index batch_size, and no
\* clause changed.
C17_Witness ==
    /\ LastWellShaped
    /\ task = "classify"
    /\ handled = 0
    /\ Len(clauses) > batch_size
    /\ Len(LastValue.a) = 2
    /\ ItemNames(-1)
    /\ ItemNames(batch_size)
    /\ clauses = pre
    /\ exc = "none"

\* C18 (as claimed): once model-backed extraction has returned, every
\* clause carries has_obligation and its value is the boolean true or false.
C18_ObligationKnownAfterExtraction ==
    (task = "extract" /\ pc = "done") =>
        \A n \in 1..Len(clauses) :
            /\ "has_obligation" \in DOMAIN clauses[n]
            /\ clauses[n].has_obligation \in {JBool(TRUE), JBool(FALSE)}

ItemValue(item) ==
    IF task = "classify" THEN DictGet(item, "category", JStr("General"))
    ELSE DictGet(item, "has_obligation", JBool(FALSE))

\* C22: the k-th annotator call of a stage is made for the clauses at the
\* 0-based positions 10(k-1) .. min(10k, n) - 1, a batch that is never empty;
\* when the stage returns it has made ceil(n/10) calls, so the batches are
\* disjoint and cover the list in order; and the last item of an answer that
\* names the in-range batch index i has written its value to the clause at
\* global position 10b + i, b being the 0-based number of the batch.
C22_BatchesPartitionAndMapBack ==
    /\ \A k \in 1..Len(calls) :
          /\ calls[k].stage = task
          /\ calls[k].i = batch_size * (k - 1)
          /\ calls[k].n = Min(batch_size, Len(clauses) - calls[k].i)
          /\ calls[k].n >= 1
    /\ pc = "done" => Len(calls) = (Len(clauses) + batch_size - 1) \div batch_size
    /\ LastWellShaped =>
          /\ handled = batch_size * (Len(calls) - 1)
          /\ \A m \in 1..Len(LastValue.a) :
                \A i \in {DictGet(LastValue.a[m], "index", JInt(-1)).n} :
                    (/\ 0 <= i
                     /\ i < calls[Len(calls)].n
                     /\ \A m2 \in (m + 1)..Len(LastValue.a) :
                           DictGet(LastValue.a[m2], "index", JInt(-1)).n /= i) =>
                        /\ TargetField \in DOMAIN clauses[handled + i + 1]
                        /\ clauses[handled + i + 1][TargetField] =
                              ItemValue(LastValue.a[m])

\* C22 witness: a stage over eleven clauses returned after two calls, and the
\* answer for the second batch named index 0, which changed the eleventh
\* clause and no other.
C22_Witness ==
    /\ pc = "done"
    /\ Len(clauses) = batch_size + 1
    /\ Len(calls) = 2
    /\ calls[2].i = batch_size
    /\ calls[2].n = 1
    /\ LastWellShaped
    /\ ItemNames(0)
    /\ clauses[batch_size + 1] /= pre[batch_size + 1]
    /\ \A n \in 1..batch_size : clauses[n] = pre[n]

\* the JSON values whose text stands in a response text
Carried(text) == {text[n].j : n \in {m \in 1..Len(text) : text[m].k = "val"}}

\* the responses the claim names for a JSON text J: J, J in a bare fence and
\* J in a fence tagged json, with or without white space around J and
\* around the whole
FencedForms(v) ==
    { <<TVal(v)>>,
      <<TWs, TVal(v), TWs>>,
      <<TFence, TVal(v), TFence>>,
      <<TFence, TWs, TVal(v), TWs, TFence>>,
      <<TFence, TTag, TVal(v), TFence>>,
      <<TFence, TTag, TWs, TVal(v), TWs, TFence>>,
      <<TFence, TTag, TWs, TVal(v), TWs, TFence, TWs>>,
      <<TWs, TFence, TTag, TWs, TVal(v), TWs, TFence, TWs>> }

\* C28: a response that is a JSON array J in one of the fenced forms has the
\* effect on the clauses, and raises or not, exactly as the bare text J would
\* have on the same batch; and for a response that holds no fence the text
\* handed to json.loads is the response with its surrounding white space
\* trimmed.
C28_FencesUnwrapped ==
    (handled >= 0 /\ ~resp.raised) =>
        /\ \A v \in Carried(resp.text) :
              (v.t = "arr" /\ resp.text \in FencedForms(v)) =>
                  \A r \in {ParseAndUpdate(task, Slice(pre, handled, handled + batch_size),
                                           <<TVal(v)>>)} :
                      /\ clauses = WithBatch(pre, handled, r.cl)
                      /\ exc = r.exc
        /\ (\A n \in 1..Len(resp.text) : resp.text[n] /= TFence) =>
              UnwrapCodeFence(resp.text) = StripText(resp.text)

\* C28 witness: the answer  ```json <newline> J <newline> ``` <newline>  of
\* the classification annotator, J an array of one item, has labelled a
\* clause.
C28_Witness ==
    /\ handled >= 0
    /\ ~resp.raised
    /\ task = "classify"
    /\ \E v \in Carried(resp.text) :
          /\ v.t = "arr"
          /\ Len(v.a) = 1
          /\ resp.text = <<TFence, TTag, TWs, TVal(v), TWs, TFence, TWs>>
    /\ exc = "none"
    /\ clauses /= pre

\* the places in the last answer of the items whose index is i
ItemsNaming(i) ==
    {m \in 1..Len(LastValue.a) : DictGet(LastValue.a[m], "index", JInt(-1)) = JInt(i)}

\* C29 (as claimed): when several items of one answer name the same in-range
\* index, the clause is afterwards what the last of these items alone would
\* have made of it: its label, or its has_obligation together with its
\* obligation_details, come from that item and nothing is left of the others.
C29_LastDuplicateWins ==
    LastWellShaped =>
        \A n \in LastBatch :
            \A M \in {ItemsNaming(n - handled - 1)} :
                Cardinality(M) >= 2 =>
                    \A last \in {m \in M : \A m2 \in M : m2 <= m} :
                        clauses[n] =
                            ParseAndUpdate(task,
                                           Slice(pre, handled, handled + batch_size),
                                           <<TVal(JArr(<<LastValue.a[last]>>))>>
                                          ).cl[n - handled]

\* the batch of the last call as it was before the call
LastBatchBefore == Slice(pre, handled, handled + batch_size)

\* C30: a parse-and-update step either fails in json.loads, and then the
\* batch is the batch before the call with the fallback default filled in and
\* no item applied; or json.loads succeeds, and then the batch is what the
\* item loop made of it up to its end or its first error, that error leaves
\* the step, and no fallback default is filled in.
C30_FallbackOnlyBeforeFirstWrite ==
    (handled >= 0 /\ ~resp.raised) =>
        \A parsed \in {JsonLoads(UnwrapCodeFence(resp.text))} :
            IF parsed.exc /= "none"
            THEN /\ exc = "none"
                 /\ clauses = WithBatch(pre, handled,
                                        IF task = "classify"
                                        THEN DefaultLabels(LastBatchBefore)
                                        ELSE DefaultObligations(LastBatchBefore))
            ELSE \A it \in {Iterate(parsed.v)} :
                    IF it.exc /= "none"
                    THEN clauses = pre /\ exc = it.exc
                    ELSE \A r \in {IF task = "classify"
                                   THEN ClassifyItems(LastBatchBefore, it.items)
                                   ELSE ExtractItems(LastBatchBefore, it.items)} :
                            /\ clauses = WithBatch(pre, handled, r.cl)
                            /\ exc = r.exc

\* C30 witness: an answer whose first item was applied to a clause and whose
\* second element is no object: the error left the step, and a clause of the
\* batch that had no value before has none now.
C30_Witness ==
    /\ handled >= 0
    /\ ~resp.raised
    /\ JsonLoads(UnwrapCodeFence(resp.text)).exc = "none"
    /\ exc \in {"AttributeError", "TypeError"}
    /\ pc = "raised"
    /\ clauses /= pre
    /\ \E n \in LastBatch : TargetField \notin DOMAIN clauses[n]

-----------------------------------------------------------------------------
(* Properties of the retriever (SpecRetriever) *)

\* the distance of the clause at a position of r_clauses to the last query
DistanceOf(pos) == L2(encoder[r_clauses[pos].text], encoder[rcall.query])

\* C8 (as claimed): retrieve with k larger than the number n of indexed
\* clauses returns at most n clause references, nearest first, none twice.
C8_RetrieveAtMostIndexed ==
    (rcall.op = "retrieve" /\ exc = "none" /\ r_index.built
        /\ rcall.k > Len(r_index.vecs)) =>
        /\ Len(result) <= Len(r_index.vecs)
        /\ \A a, b \in 1..Len(result) : a < b => result[a] /= result[b]
        /\ \A a, b \in 1..Len(result) : a < b => DistanceOf(result[a]) <= DistanceOf(result[b])

\* C9: retrieve on a retriever that holds no index (index() was never called,
\* or only failed) returns the empty list and raises nothing, whatever the
\* query and k.
C9_RetrieveBeforeIndexEmpty ==
    (rcall.op = "retrieve" /\ ~r_index.built) =>
        /\ result = <<>>
        /\ exc = "none"

\* C9 witness: retrieve with the default k was the first call on the
\* retriever of a document that has clauses.
C9_Witness ==
    /\ rcall.op = "retrieve"
    /\ rcall.k = default_k
    /\ rcall.query = TerminationQuery
    /\ ~r_index.built
    /\ r_clauses = <<>>
    /\ Len(clauses) > 0

-----------------------------------------------------------------------------
(* Properties of the pipeline driver (SpecPipeline) *)

\* the value the model wrote at a (position, key) pair is the value returned
Kept(w) ==
    /\ w.field \in DOMAIN clauses[w.n]
    /\ clauses[w.n][w.field] = snap[w.n][w.field]

\* C5 (as claimed): when the annotator call of batch j of the Classification
\* (or Extraction) stage raises, the label (has_obligation) values written
\* from the model's responses to the batches before j are unchanged on the
\* clause list process_document returns.
C5_EarlierBatchesSurviveRaise ==
    (pc = "pd_return" /\ failure.raised /\ failure.stage \in {"classify", "extract"}) =>
        \A w \in fromModel :
            (w.field = FieldOf(failure.stage) /\ w.n <= failure.bi) => Kept(w)

\* C6 (as claimed): when both model-backed stages completed and the
\* summarization raises, every label and has_obligation written from model
\* output has the same value on the clause list process_document returns.
C6_CompletedStagesSurviveSummaryFailure ==
    (pc = "pd_return" /\ failure.stage = "summarize") =>
        \A w \in fromModel : Kept(w)

\* the ids of a clause list, in order
IdsOf(list) == [n \in 1..Len(list) |-> list[n].id]

\* C11: from ingestion on, through every stage operation of process_document
\* (model-backed and rule-based classification and extraction, summarization,
\* the except branch, index build and retrieval) and every annotator outcome,
\* the clause list holds the ids ingestion gave it, in the same positions;
\* the list handed to the retriever holds them too.
C11_IdsStableAcrossStages ==
    pc /= "pd_ingest" =>
        \A ingested \in {Ingest(pages)} :
            /\ IdsOf(clauses) = IdsOf(ingested)
            /\ r_index.built => IdsOf(r_clauses) = IdsOf(ingested)

\* C11 witness: a document of two batches went through both model-backed
\* stages, the second of which failed, then through the rule-based stages of
\* the except branch, index build and retrieval.
C11_Witness ==
    /\ pc = "pd_return"
    /\ Len(clauses) > batch_size
    /\ failure.stage = "extract"
    /\ fromModel /= {}

\* the run stands at the entry of the degraded path with at least one clause:
\* no credential was given, or a step of the try block raised
DegradedEntered ==
    /\ Len(clauses) >= 1
    /\ \/ pc = "pd_except"
       \/ pc = "pd_try" /\ api_key = ""

\* process_document returned, every clause carrying the rule-based label and
\* obligation flag of its text, after the index was built and queried
DegradedReturned ==
    /\ pc = "pd_return"
    /\ exc = "none"
    /\ \A n \in 1..Len(clauses) :
          /\ "label" \in DOMAIN clauses[n]
          /\ clauses[n].label = JStr(RuleLabel(clauses[n].text))
          /\ "has_obligation" \in DOMAIN clauses[n]
          /\ clauses[n].has_obligation = JBool(RuleObligation(clauses[n].text))
    /\ r_index.built
    /\ Len(r_index.vecs) = Len(clauses)
    /\ rcall.op = "retrieve"
    /\ summary = JNull

\* C12: on a document with at least one clause, whenever the credential is
\* absent or initialization, classification, extraction or summarization
\* raises, the run goes on to apply both rule-based stages to all clauses,
\* to build and query the index, and to return without raising.
C12_DegradedRunsToReturn == DegradedEntered ~> DegradedReturned

\* C12 witness: the run returned through the except branch after the
\* annotator raised in the second batch of the classification.
C12_Witness ==
    /\ DegradedReturned
    /\ failure.stage = "classify"
    /\ failure.raised
    /\ failure.bi = batch_size

\* C13 (as claimed): when ingestion yields no clause (no page, or only white
\* space), process_document does not raise: no exception leaves it, the index
\* build step included.
C13_EmptyDocumentReturns ==
    (pc /= "pd_ingest" /\ clauses = <<>>) =>
        /\ pc /= "pd_raised"
        /\ exc = "none"

\* the run took the model-backed path to its end: a key was given and no
\* step of the try block raised
ModelPathCompleted == api_key /= "" /\ failure.stage = "none"

\* C19 (as claimed): a run of process_document that returns is either
\* Summarized (the model-backed path completed and the summary is present,
\* as the caller tests it with  if summary) or Degraded-Complete (the
\* rule-based path produced the annotations and the summary is None).
C19_SummarizedOrDegraded ==
    pc = "pd_return" =>
        \/ ModelPathCompleted /\ Truthy(summary)
        \/ ~ModelPathCompleted /\ summary = JNull

\* C20: every clause segmentation produced has a text that is non-empty and
\* neither starts nor ends with white space, and from ingestion on, through
\* every stage operation of process_document, every clause has the text and
\* the page ingestion gave it.
C20_TextTrimmedAndImmutable ==
    pc /= "pd_ingest" =>
        \A ingested \in {Ingest(pages)} :
            /\ Len(clauses) = Len(ingested)
            /\ \A n \in 1..Len(clauses) :
                  /\ clauses[n].text /= <<>>
                  /\ clauses[n].text[1] \notin Whitespace
                  /\ clauses[n].text[Len(clauses[n].text)] \notin Whitespace
                  /\ clauses[n].text = ingested[n].text
                  /\ clauses[n].page = ingested[n].page

\* C20 witness: a page whose two paragraphs stand in white space around an
\* empty segment went through a model-backed stage that wrote a field, and
\* the run returned.
C20_Witness ==
    /\ pc = "pd_return"
    /\ Len(pages) = 1
    /\ pages[1][1] = " "
    /\ pages[1][Len(pages[1])] = "\n"
    /\ Len(clauses) = 2
    /\ fromModel /= {}

\* the place of a stage's annotator calls in the claimed order
StageRank(stage) ==
    CASE stage = "classify" -> 1
      [] stage = "extract" -> 2
      [] stage = "summarize" -> 3

\* C23 (as claimed): in a run on the model-backed path that no failure has
\* degraded, the annotator calls come in the order classification, extraction,
\* summarization; the index is built only after the last extraction batch;
\* and the summary is generated only once the index is built.
C23_StagesInLinearOrder ==
    (api_key /= "" /\ failure.stage = "none") =>
        /\ \A j, k \in 1..Len(calls) :
              j < k => StageRank(calls[j].stage) <= StageRank(calls[k].stage)
        /\ r_index.built => pc \notin {"pd_classify", "pd_extract"}
        /\ (\E k \in 1..Len(calls) : calls[k].stage = "summarize") => r_index.built

\* C24: the summarization step, the index build and the retrieval leave the
\* clause list exactly as it was (no clause added or removed, no field added,
\* removed or changed); the retriever holds the analysed clause list itself;
\* and every entry of a retrieval result refers to a record of that list.
C24_ReadOnlyFromIndexBuild ==
    /\ [][(pc \in {"pd_summary", "pd_index", "pd_retrieve"}) => (clauses' = clauses)]_vars
    /\ [](r_index.built => r_clauses = clauses)
    /\ [](\A j \in 1..Len(result) : result[j] \in 1..Len(r_clauses))

\* C24 witness: a run on the model-backed path returned with a summary and a
\* non-empty retrieval result over clauses that carry labels and obligation
\* flags.
C24_Witness ==
    /\ pc = "pd_return"
    /\ prompt.built
    /\ summary = JStr("## Document Overview")
    /\ r_index.built
    /\ Len(result) = default_k
    /\ \A n \in 1..Len(clauses) :
          {"label", "has_obligation"} \subseteq DOMAIN clauses[n]

-----------------------------------------------------------------------------
(* Properties of summarization (SpecSummary) *)

\* the category a clause counts under
CategoryOf(c) == IF "label" \in DOMAIN c THEN c.label ELSE JStr("General")

\* the positions of the clauses of a category, and of the clauses that bear
\* an obligation
Members(category) == {n \in 1..Len(clauses) : CategoryOf(clauses[n]) = category}

Obligated ==
    {n \in 1..Len(clauses) :
        "has_obligation" \in DOMAIN clauses[n] /\ Truthy(clauses[n].has_obligation)}

\* the j-th position of a set of positions, in document order
Nth(S, j) == CHOOSE n \in S : Cardinality({q \in S : q < n}) = j - 1

\* the first 200 characters of a text
First200(text) == IF Len(text) > 200 THEN SubSeq(text, 1, 200) ELSE text

\* C25: a prompt that was built reports the number of all clauses and of all
\* obligation-bearing clauses; it lists each category once with the number of
\* all its clauses (a clause without label counting under General) and the
\* first 200 characters of the texts of its first three clauses; and it
\* lists the first five obligation-bearing clauses in document order, each by
\* its obligation_details when it has that key and by the first 200
\* characters of its text otherwise.
C25_SummaryAggregation ==
    prompt.built =>
        /\ prompt.total = Len(clauses)
        /\ prompt.obligations = Cardinality(Obligated)
        /\ {prompt.categories[e].category : e \in 1..Len(prompt.categories)} =
              {CategoryOf(clauses[n]) : n \in 1..Len(clauses)}
        /\ \A e, f \in 1..Len(prompt.categories) :
              e /= f => prompt.categories[e].category /= prompt.categories[f].category
        /\ \A e \in 1..Len(prompt.categories) :
              \A S \in {Members(prompt.categories[e].category)} :
                  /\ prompt.categories[e].count = Cardinality(S)
                  /\ Len(prompt.categories[e].texts) = Min(3, Cardinality(S))
                  /\ \A j \in 1..Len(prompt.categories[e].texts) :
                        prompt.categories[e].texts[j] = First200(clauses[Nth(S, j)].text)
        /\ Len(prompt.key) = Min(5, Cardinality(Obligated))
        /\ \A j \in 1..Len(prompt.key) :
              \A c \in {clauses[Nth(Obligated, j)]} :
                  IF "obligation_details" \in DOMAIN c
                  THEN /\ prompt.key[j].kind = "details"
                       /\ prompt.key[j].v = c.obligation_details
                  ELSE /\ prompt.key[j].kind = "text"
                       /\ prompt.key[j].text = First200(c.text)

\* C25 witness: a prompt built from six clauses that all bear an obligation,
\* one of them without a label, more than three of them in one category:
\* five are listed, some by their details and one by a text cut from more
\* than 200 characters to 200.
C25_Witness ==
    /\ pc = "done"
    /\ prompt.built
    /\ prompt.total = 6
    /\ prompt.obligations = 6
    /\ Len(prompt.key) = 5
    /\ \E n \in 1..Len(clauses) : "label" \notin DOMAIN clauses[n]
    /\ \E e \in 1..Len(prompt.categories) :
          /\ prompt.categories[e].count > 3
          /\ Len(prompt.categories[e].texts) = 3
    /\ \E j \in 1..Len(prompt.key) : prompt.key[j].kind = "details"
    /\ \E j \in 1..Len(prompt.key) :
          /\ prompt.key[j].kind = "text"
          /\ Len(prompt.key[j].text) = 200
          /\ Len(clauses[Nth(Obligated, j)].text) > 200

\* the lower-cased text holds "shall" or "must" at some position
ShallOrMust(text) ==
    \E n \in 1..Len(text) :
        \/ /\ n + 4 <= Len(text)
           /\ SubSeq(Lower(text), n, n + 4) = <<"s", "h", "a", "l", "l">>
        \/ /\ n + 3 <= Len(text)
           /\ SubSeq(Lower(text), n, n + 3) = <<"m", "u", "s", "t">>

\* the rule-based stages have run in this run of process_document
RuleBasedRan ==
    /\ pc \in {"pd_index", "pd_retrieve", "pd_return", "pd_raised"}
    /\ api_key = "" \/ failure.stage /= "none"

\* C27: the step that runs the rule-based stages leaves on every clause
\* has_obligation = true exactly when the lower-cased text holds "shall" or
\* "must" and false otherwise, whatever value was there before; apart from
\* has_obligation and the label the rule-based classifier writes in the same
\* step, no field of a clause is added, removed or changed; and the three
\* scenario clauses get true, true, false.
C27_RuleObligations ==
    /\ [][(pc \in {"pd_try", "pd_except"} /\ pc' = "pd_index") =>
            /\ Len(clauses') = Len(clauses)
            /\ \A n \in 1..Len(clauses) :
                  clauses'[n] =
                      DictSet(DictSet(clauses[n], "label", clauses'[n].label),
                              "has_obligation", JBool(ShallOrMust(clauses[n].text)))]_vars
    /\ []((RuleBasedRan /\ pages = ScenarioDoc) =>
            [n \in 1..Len(clauses) |-> clauses[n].has_obligation] =
                <<JBool(TRUE), JBool(TRUE), JBool(FALSE)>>)

\* C27 witness: on the scenario document the extraction stage had stored
\* values from the model, the summarization raised, and the rule-based
\* extractor replaced a stored value by its own.
C27_Witness ==
    /\ pc = "pd_return"
    /\ pages = ScenarioDoc
    /\ failure.stage = "summarize"
    /\ \E n \in 1..Len(clauses) :
          /\ "has_obligation" \in DOMAIN snap[n]
          /\ snap[n].has_obligation /= clauses[n].has_obligation
    /\ clauses[1].has_obligation = JBool(TRUE)
    /\ clauses[2].has_obligation = JBool(TRUE)
    /\ clauses[3].has_obligation = JBool(FALSE)

=============================================================================
